---- MODULE Spec2Model ----
(***************************************************************************)
(* Tree Structure API: the tree_nodes table and the six request handlers   *)
(* of routes/treeRoutes.js, plus the root bootstrap of app.js.             *)
(*                                                                         *)
(* Spec runs the handlers one at a time, each to completion (sequential    *)
(* callers).  A response is recorded as the HTTP status and the error      *)
(* message the handler sends.                                              *)
(***************************************************************************)
EXTENDS Integers, Sequences, FiniteSets, TLC

VARIABLES nodes,    \* the tree_nodes table: id -> [title, parent_node_id, ordering]
          seq,      \* the AUTOINCREMENT counter: greatest id ever assigned
          started,  \* the bootstrap of app.js has run at least once
          prev,     \* the table as it was when the last request arrived
          last,     \* the last request and its response
          calls     \* the handler invocations in flight when callers overlap

vars == <<nodes, seq, started, prev, last, calls>>

\* ---------------------------------------------------------------- bounds
\* Greatest id the AUTOINCREMENT counter may reach.
MaxId == 4
\* Number of handler invocations that may overlap.
MaxCalls == 2

\* ------------------------------------------------------ program constants
\* parent_node_id of the root (allowNull), and what findByPk gives for no row.
NULL == 0
\* The fixed id of the root node.
ROOT_ID == 1

RootTitle == "Root Node"
Titles == {"a"}

\* Request inputs.
IdInputs == 1..MaxId
ParentInputs == IdInputs \cup {NULL}
OrderingInputs == -1..(MaxId - 1)

\* ------------------------------------------------------------- the model
\* A row of tree_nodes.
TreeNode(title, parent_node_id, ordering) ==
    [title |-> title, parent_node_id |-> parent_node_id, ordering |-> ordering]

\* TreeNode.findByPk(id): whether a row exists (findByPk(null) finds none).
findByPk(n, id) == id # NULL /\ id \in DOMAIN n

\* Rows whose parent_node_id is p (findAll / count with where: {parent_node_id}).
childrenOf(n, p) == {c \in DOMAIN n : n[c].parent_node_id = p}

\* TreeNode.count({where: {parent_node_id}})
count(n, p) == Cardinality(childrenOf(n, p))

\* Mutant of findAllAsc: the order clause is missing, the rows come in any order.
RECURSIVE findAllUnordered(_, _)
findAllUnordered(n, S) ==
    IF S = {} THEN {<<>>}
    ELSE UNION {{<<x>> \o t : t \in findAllUnordered(n, S \ {x})} : x \in S}

\* The orders in which findAll(order: [["ordering","ASC"]]) may return the
\* rows S: ascending by ordering, rows of equal ordering in any order.
RECURSIVE findAllAsc(_, _)
findAllAsc(n, S) ==
    IF S = {} THEN {<<>>}
    ELSE LET least == {x \in S : \A y \in S : n[x].ordering <= n[y].ordering}
         IN UNION {{<<x>> \o t : t \in findAllAsc(n, S \ {x})} : x \in least}

\* The request/response record.
Response(op, id, arg, title, status, error, body, children) ==
    [op |-> op, id |-> id, arg |-> arg, title |-> title, status |-> status,
     error |-> error, body |-> body, children |-> children]

NoRequest == Response("none", NULL, NULL, "", 0, "", NULL, <<>>)

\* No request is being served: callers are sequential, each waits for the
\* response to its request before the next request is sent.
idle == last = NoRequest

\* A handler invocation: its request, the values it holds between two storage
\* calls, and its response once pc = "done".
NoCall ==
    [op |-> "none", pc |-> "none", id |-> NULL, arg |-> NULL, par |-> NULL,
     ord |-> 0, cnt |-> 0, cur |-> NULL, list |-> <<>>, i |-> 0, stack |-> <<>>,
     status |-> 0, error |-> ""]

NoCalls == [c \in 1..MaxCalls |-> NoCall]

\* app.js: create the root if no row has id 1.
Bootstrap ==
    /\ idle
    /\ UNCHANGED calls
    /\ nodes' = IF findByPk(nodes, ROOT_ID) THEN nodes
                ELSE (ROOT_ID :> TreeNode(RootTitle, NULL, 0)) @@ nodes
    /\ seq' = IF seq < ROOT_ID THEN ROOT_ID ELSE seq
    /\ started' = TRUE
    /\ prev' = nodes
    /\ last' = Response("bootstrap", NULL, NULL, "", 0, "", NULL, <<>>)

\* GET /nodes/:id
GetNode(nodeId) ==
    /\ IF ~findByPk(nodes, nodeId)
       THEN last' = Response("get", nodeId, NULL, "", 404, "Node not found.", NULL, <<>>)
       ELSE \E children \in findAllAsc(nodes, childrenOf(nodes, nodeId)) :
                last' = Response("get", nodeId, NULL, "", 200, "", nodeId, children)
    /\ prev' = nodes
    /\ UNCHANGED <<nodes, seq, started>>

\* Mutants of parentExists: a null parent is let through; no check at all.
parentExistsOrNull(n, parent_node_id) ==
    parent_node_id = NULL \/ findByPk(n, parent_node_id)
parentExistsAlways(n, parent_node_id) == TRUE

\* POST /nodes: the parent check of the insert handler.
parentExists(n, parent_node_id) == findByPk(n, parent_node_id)

\* POST /nodes: the ordering given to the new row.
\* Mutant of nextOrdering: the column default instead of the sibling count.
nextOrderingDefault(n, parent_node_id) == 0

nextOrdering(n, parent_node_id) == count(n, parent_node_id)

\* POST /nodes
InsertNode(title, parent_node_id) ==
    /\ prev' = nodes
    /\ UNCHANGED started
    /\ IF ~parentExists(nodes, parent_node_id)
       THEN /\ last' = Response("insert", NULL, parent_node_id, title, 400,
                                "Parent node does not exist.", NULL, <<>>)
            /\ UNCHANGED <<nodes, seq>>
       ELSE /\ seq < MaxId
            /\ LET id == seq + 1
                   ordering == nextOrdering(nodes, parent_node_id)
               IN /\ nodes' = (id :> TreeNode(title, parent_node_id, ordering)) @@ nodes
                  /\ seq' = id
                  /\ last' = Response("insert", NULL, parent_node_id, title, 201,
                                      "", id, <<>>)

\* Mutant of saveTitle: the row is written back with the column default of
\* ordering.
saveTitleAndDefaults(n, nodeId, title) ==
    [n EXCEPT ![nodeId].title = title, ![nodeId].ordering = 0]

\* node.title = title; node.save()
saveTitle(n, nodeId, title) == [n EXCEPT ![nodeId].title = title]

\* PUT /nodes/:id
UpdateNode(nodeId, title) ==
    /\ prev' = nodes
    /\ UNCHANGED <<seq, started>>
    /\ IF ~findByPk(nodes, nodeId)
       THEN /\ last' = Response("update", nodeId, NULL, title, 404,
                                "Node not found.", NULL, <<>>)
            /\ UNCHANGED nodes
       ELSE /\ nodes' = saveTitle(nodes, nodeId, title)
            /\ last' = Response("update", nodeId, NULL, title, 200, "", nodeId, <<>>)

\* The nodes below id: the least set holding the children of id and of its members.
RECURSIVE below(_, _)
below(n, S) ==
    LET more == S \cup {c \in DOMAIN n : n[c].parent_node_id \in S}
    IN IF more = S THEN S ELSE below(n, more)

\* The recursion of deleteNodeAndDescendants does not end when it comes back
\* to a node it is already deleting (a cycle below id).
deleteDiverges(n, id) ==
    \E x \in below(n, {id}) : x \in below(n, childrenOf(n, x))

\* Mutant of deleteNodeAndDescendants: the node is destroyed, its children are not
\* visited.
deleteNodeOnly(n, id) == [x \in DOMAIN n \ {id} |-> n[x]]

\* deleteNodeAndDescendants(id): the table after it returns.
RECURSIVE deleteNodeAndDescendants(_, _)
deleteNodeAndDescendants(n, id) ==
    LET RECURSIVE eachChild(_, _)
        eachChild(m, cs) ==
            IF cs = {} THEN m
            ELSE LET child == CHOOSE c \in cs : TRUE
                 IN eachChild(deleteNodeAndDescendants(m, child), cs \ {child})
        m == eachChild(n, childrenOf(n, id))
    IN [x \in DOMAIN m \ {id} |-> m[x]]

\* Mutant of isRoot: the guard compares with the wrong id.
isRootZero(nodeId) == nodeId = 0

\* The root guard of the delete and move handlers.
isRoot(nodeId) == nodeId = ROOT_ID

\* DELETE /nodes/:id
DeleteNode(nodeId) ==
    /\ prev' = nodes
    /\ UNCHANGED <<seq, started>>
    /\ IF isRoot(nodeId)
       THEN /\ last' = Response("delete", nodeId, NULL, "", 400,
                                "Cannot delete the root node.", NULL, <<>>)
            /\ UNCHANGED nodes
       ELSE IF deleteDiverges(nodes, nodeId)
       THEN /\ last' = Response("delete", nodeId, NULL, "", 0, "no response", NULL, <<>>)
            /\ UNCHANGED nodes
       ELSE /\ nodes' = deleteNodeAndDescendants(nodes, nodeId)
            /\ last' = Response("delete", nodeId, NULL, "", 200, "", NULL, <<>>)

\* isDescendant(parentNodeId, childId): "true", "false", "TypeError" when
\* findByPk gives null and its parent_node_id is read, "diverges" when the walk
\* comes back to an id it has already left (it then never ends).
RECURSIVE isDescendantFrom(_, _, _, _)
isDescendantFrom(n, parentNodeId, childId, seen) ==
    IF parentNodeId = NULL THEN "false"
    ELSE IF parentNodeId = childId THEN "true"
    ELSE IF parentNodeId \in seen THEN "diverges"
    ELSE IF ~findByPk(n, parentNodeId) THEN "TypeError"
    ELSE isDescendantFrom(n, n[parentNodeId].parent_node_id, childId,
                          seen \cup {parentNodeId})

\* Mutants of isDescendant: only the new parent itself is compared, its
\* ancestors are not walked; the walk starts above the new parent.
isDescendantParentOnly(n, parentNodeId, childId) ==
    IF parentNodeId = childId THEN "true" ELSE "false"
isDescendantSkipSelf(n, parentNodeId, childId) ==
    IF ~findByPk(n, parentNodeId) THEN "false"
    ELSE isDescendantFrom(n, n[parentNodeId].parent_node_id, childId, {})

\* Mutant of isDescendant: every walk that is not cut short reports a descendant.
isDescendantRootTrue(n, parentNodeId, childId) ==
    IF isDescendantFrom(n, parentNodeId, childId, {}) = "false" THEN "true"
    ELSE isDescendantFrom(n, parentNodeId, childId, {})

isDescendant(n, parentNodeId, childId) == isDescendantFrom(n, parentNodeId, childId, {})

\* PUT /nodes/:id/move
MoveNode(nodeId, new_parent_node_id) ==
    /\ prev' = nodes
    /\ UNCHANGED <<seq, started>>
    /\ IF ~findByPk(nodes, nodeId) \/ ~findByPk(nodes, new_parent_node_id)
       THEN /\ last' = Response("move", nodeId, new_parent_node_id, "", 404,
                                "Node or new parent node not found.", NULL, <<>>)
            /\ UNCHANGED nodes
       ELSE IF isRoot(nodeId)
       THEN /\ last' = Response("move", nodeId, new_parent_node_id, "", 400,
                                "Cannot move the root node.", NULL, <<>>)
            /\ UNCHANGED nodes
       ELSE LET createsCycle == isDescendant(nodes, new_parent_node_id, nodeId)
            IN CASE createsCycle = "true" ->
                    /\ last' = Response("move", nodeId, new_parent_node_id, "", 400,
                                        "Cannot move a node to its own descendant.",
                                        NULL, <<>>)
                    /\ UNCHANGED nodes
               [] createsCycle = "TypeError" ->
                    /\ last' = Response("move", nodeId, new_parent_node_id, "", 500,
                                        "Error moving node.", NULL, <<>>)
                    /\ UNCHANGED nodes
               [] createsCycle = "diverges" ->
                    /\ last' = Response("move", nodeId, new_parent_node_id, "", 0,
                                        "no response", NULL, <<>>)
                    /\ UNCHANGED nodes
               [] createsCycle = "false" ->
                    LET siblingCount == count(nodes, new_parent_node_id)
                    IN /\ nodes' = [nodes EXCEPT
                                      ![nodeId].parent_node_id = new_parent_node_id,
                                      ![nodeId].ordering = siblingCount]
                       /\ last' = Response("move", nodeId, new_parent_node_id, "", 200,
                                           "", NULL, <<>>)

\* Array.prototype.splice(start, 1): start is clamped to the length.
spliceOut(s, start) ==
    IF start >= Len(s) THEN s
    ELSE SubSeq(s, 1, start) \o SubSeq(s, start + 2, Len(s))

\* Array.prototype.splice(start, 0, item)
spliceIn(s, start, item) ==
    LET at == IF start > Len(s) THEN Len(s) ELSE start
    IN SubSeq(s, 1, at) \o <<item>> \o SubSeq(s, at + 1, Len(s))

\* The update loop of the reorder handler: row siblings[i] gets ordering i - 1
\* (1-based i), in index order.
RECURSIVE renumber(_, _, _)
renumber(n, siblings, i) ==
    IF i > Len(siblings) THEN n
    ELSE renumber(IF siblings[i] \in DOMAIN n
                  THEN [n EXCEPT ![siblings[i]].ordering = i - 1] ELSE n,
                  siblings, i + 1)

\* Mutant of invalidOrdering: the upper bound is compared with > instead of >=.
invalidOrderingOffByOne(new_ordering, siblings) ==
    new_ordering < 0 \/ new_ordering > Len(siblings)

\* The bounds check of the reorder handler.
invalidOrdering(new_ordering, siblings) ==
    new_ordering < 0 \/ new_ordering >= Len(siblings)

\* PUT /nodes/:id/reorder
ReorderNode(nodeId, new_ordering) ==
    /\ prev' = nodes
    /\ UNCHANGED <<seq, started>>
    /\ IF ~findByPk(nodes, nodeId)
       THEN /\ last' = Response("reorder", nodeId, new_ordering, "", 404,
                                "Node not found.", NULL, <<>>)
            /\ UNCHANGED nodes
       ELSE \E siblings \in findAllAsc(nodes,
                                       childrenOf(nodes, nodes[nodeId].parent_node_id)) :
              IF invalidOrdering(new_ordering, siblings)
              THEN /\ last' = Response("reorder", nodeId, new_ordering, "", 400,
                                       "Invalid new ordering value.", NULL, <<>>)
                   /\ UNCHANGED nodes
              ELSE LET removed == spliceOut(siblings, nodes[nodeId].ordering)
                       placed == spliceIn(removed, new_ordering, nodeId)
                   IN /\ nodes' = renumber(nodes, placed, 1)
                      /\ last' = Response("reorder", nodeId, new_ordering, "", 200,
                                          "", NULL, <<>>)

\* res.json(...): the response reaches the caller, who may send the next request.
\* A handler that never responds (status 0) keeps its caller waiting.
Respond ==
    /\ ~idle /\ last.error # "no response"
    /\ UNCHANGED calls
    /\ last' = NoRequest
    /\ prev' = nodes
    /\ UNCHANGED <<nodes, seq, started>>

Init ==
    /\ nodes = <<>>
    /\ seq = 0
    /\ started = FALSE
    /\ prev = <<>>
    /\ last = NoRequest
    /\ calls = <<>>

\* A request reaches the router: the bootstrap has run and the caller has the
\* response to its previous request.
serving == started /\ idle /\ UNCHANGED calls

GetRequest == serving /\ \E nodeId \in IdInputs : GetNode(nodeId)

InsertRequest ==
    serving /\ \E title \in Titles, parent_node_id \in ParentInputs :
                   InsertNode(title, parent_node_id)

UpdateRequest ==
    serving /\ \E nodeId \in IdInputs, title \in Titles : UpdateNode(nodeId, title)

DeleteRequest == serving /\ \E nodeId \in IdInputs : DeleteNode(nodeId)

MoveRequest ==
    serving /\ \E nodeId \in IdInputs, new_parent_node_id \in ParentInputs :
                   MoveNode(nodeId, new_parent_node_id)

ReorderRequest ==
    serving /\ \E nodeId \in IdInputs, new_ordering \in OrderingInputs :
                   ReorderNode(nodeId, new_ordering)

Next ==
    \/ Bootstrap
    \/ GetRequest
    \/ InsertRequest
    \/ UpdateRequest
    \/ DeleteRequest
    \/ MoveRequest
    \/ ReorderRequest
    \/ Respond

Spec == Init /\ [][Next]_vars

\* Sequential callers that never delete and never move.
NextInsertUpdateReorder ==
    \/ Bootstrap
    \/ InsertRequest
    \/ UpdateRequest
    \/ ReorderRequest
    \/ Respond

SpecInsertUpdateReorder == Init /\ [][NextInsertUpdateReorder]_vars

\* ------------------------------------------------- overlapping invocations
\* The handlers take no lock and open no transaction: between two storage
\* calls (each await) of one invocation the storage calls of another may run.
\* SpecC runs up to MaxCalls invocations, one storage call at a time, from
\* stores that sequential inserts reach.  prev keeps the store they started from.

\* root only; root with children 2 and 3; root with child 2 and grandchild 3.
ConcTrees ==
    { (ROOT_ID :> TreeNode(RootTitle, NULL, 0)),
      (ROOT_ID :> TreeNode(RootTitle, NULL, 0)) @@ (2 :> TreeNode("a", ROOT_ID, 0))
          @@ (3 :> TreeNode("a", ROOT_ID, 1)),
      (ROOT_ID :> TreeNode(RootTitle, NULL, 0)) @@ (2 :> TreeNode("a", ROOT_ID, 0))
          @@ (3 :> TreeNode("a", 2, 0)) }

InitC ==
    /\ nodes \in ConcTrees
    /\ seq = Cardinality(DOMAIN nodes)
    /\ started = TRUE
    /\ prev = nodes
    /\ last = NoRequest
    /\ calls = NoCalls

\* Invocation c goes on as call, with the table and the id counter as given.
Step(c, call, table, counter) ==
    /\ calls' = [calls EXCEPT ![c] = call]
    /\ nodes' = table
    /\ seq' = counter
    /\ UNCHANGED <<started, prev, last>>

\* The response is sent: the invocation is over.
Done(call, status, error) ==
    [call EXCEPT !.pc = "done", !.status = status, !.error = error]

\* A stack frame of deleteNodeAndDescendants(id): the children still to visit.
Frame(id, todo, pc) == [id |-> id, todo |-> todo, pc |-> pc]

\* A request arrives and its handler runs up to its first storage call.  The
\* delete handler answers a request for the root before any storage call.
StartCall(c, op, id, arg) ==
    /\ calls[c].op = "none"
    /\ c > 1 => calls[c - 1].op # "none"
    /\ LET call == [NoCall EXCEPT !.op = op, !.id = id, !.arg = arg]
       IN Step(c,
               CASE op = "insert" -> [call EXCEPT !.pc = "findParent"]
                 [] op = "delete" ->
                      IF isRoot(id)
                      THEN Done(call, 400, "Cannot delete the root node.")
                      ELSE [call EXCEPT !.pc = "delete",
                                        !.stack = <<Frame(id, {}, "findAll")>>]
                 [] OTHER -> [call EXCEPT !.pc = "findNode"],
               nodes, seq)

\* POST /nodes: parentNode = await TreeNode.findByPk(parent_node_id)
InsertFindParent(c) ==
    /\ calls[c].op = "insert" /\ calls[c].pc = "findParent"
    /\ Step(c, IF ~parentExists(nodes, calls[c].arg)
               THEN Done(calls[c], 400, "Parent node does not exist.")
               ELSE [calls[c] EXCEPT !.pc = "count"],
            nodes, seq)

\* POST /nodes: siblingCount = await TreeNode.count(...)
InsertCount(c) ==
    /\ calls[c].op = "insert" /\ calls[c].pc = "count"
    /\ Step(c, [calls[c] EXCEPT !.pc = "create",
                                !.cnt = nextOrdering(nodes, calls[c].arg)],
            nodes, seq)

\* POST /nodes: newNode = await TreeNode.create(...)
InsertCreate(c) ==
    /\ calls[c].op = "insert" /\ calls[c].pc = "create"
    /\ seq < MaxId
    /\ Step(c, [Done(calls[c], 201, "") EXCEPT !.cur = seq + 1],
            ((seq + 1) :> TreeNode("a", calls[c].arg, calls[c].cnt)) @@ nodes,
            seq + 1)

\* GET, PUT move, PUT reorder: node = await TreeNode.findByPk(nodeId).  The get
\* and reorder handlers answer 404 at once when there is no row.
FindNode(c) ==
    /\ calls[c].op \in {"get", "move", "reorder"} /\ calls[c].pc = "findNode"
    /\ LET found == findByPk(nodes, calls[c].id)
       IN Step(c,
               IF ~found /\ calls[c].op # "move"
               THEN Done(calls[c], 404, "Node not found.")
               ELSE IF ~found THEN [calls[c] EXCEPT !.pc = "findParent", !.par = -1]
               ELSE [calls[c] EXCEPT
                       !.pc = CASE calls[c].op = "move" -> "findParent"
                                [] OTHER -> "findAll",
                       !.par = nodes[calls[c].id].parent_node_id,
                       !.ord = nodes[calls[c].id].ordering],
               nodes, seq)

\* GET: children = await TreeNode.findAll(...)
GetFindAll(c) ==
    /\ calls[c].op = "get" /\ calls[c].pc = "findAll"
    /\ \E children \in findAllAsc(nodes, childrenOf(nodes, calls[c].id)) :
          Step(c, [Done(calls[c], 200, "") EXCEPT !.list = children], nodes, seq)

\* Mutant of AfterWalkTo: the walk does not stop at a null parent.
AfterWalkToNoNullCheck(call, parentNodeId) ==
    IF parentNodeId = call.id
    THEN Done(call, 400, "Cannot move a node to its own descendant.")
    ELSE [call EXCEPT !.pc = "walk", !.cur = parentNodeId]

\* The part of isDescendant(parentNodeId, childId) before its await: the
\* invocation ends with Cycle, goes on to the count, or reads the next parent.
AfterWalkTo(call, parentNodeId) ==
    IF parentNodeId = NULL THEN [call EXCEPT !.pc = "count", !.cur = NULL]
    ELSE IF parentNodeId = call.id
    THEN Done(call, 400, "Cannot move a node to its own descendant.")
    ELSE [call EXCEPT !.pc = "walk", !.cur = parentNodeId]

\* PUT move: newParentNode = await TreeNode.findByPk(new_parent_node_id), the
\* 404 and root checks, and the first call of isDescendant.
MoveFindParent(c) ==
    /\ calls[c].op = "move" /\ calls[c].pc = "findParent"
    /\ Step(c,
            IF calls[c].par = -1 \/ ~findByPk(nodes, calls[c].arg)
            THEN Done(calls[c], 404, "Node or new parent node not found.")
            ELSE IF isRoot(calls[c].id)
            THEN Done(calls[c], 400, "Cannot move the root node.")
            ELSE AfterWalkTo(calls[c], calls[c].arg),
            nodes, seq)

\* isDescendant: parent = await TreeNode.findByPk(parentNodeId), then the
\* recursive call on parent.parent_node_id (a TypeError when parent is null).
MoveWalk(c) ==
    /\ calls[c].op = "move" /\ calls[c].pc = "walk"
    /\ Step(c,
            IF ~findByPk(nodes, calls[c].cur)
            THEN Done(calls[c], 500, "Error moving node.")
            ELSE AfterWalkTo(calls[c], nodes[calls[c].cur].parent_node_id),
            nodes, seq)

\* PUT move: siblingCount = await TreeNode.count(...)
MoveCount(c) ==
    /\ calls[c].op = "move" /\ calls[c].pc = "count"
    /\ Step(c, [calls[c] EXCEPT !.pc = "save",
                                !.cnt = count(nodes, calls[c].arg)],
            nodes, seq)

\* PUT move: await node.save() writes the attributes that differ from the row
\* as it was read, in the row with the node's id if there still is one.
MoveSave(c) ==
    /\ calls[c].op = "move" /\ calls[c].pc = "save"
    /\ LET id == calls[c].id
           row == [nodes[id] EXCEPT
                     !.parent_node_id = IF calls[c].arg # calls[c].par
                                        THEN calls[c].arg ELSE @,
                     !.ordering = IF calls[c].cnt # calls[c].ord
                                  THEN calls[c].cnt ELSE @]
       IN Step(c, Done(calls[c], 200, ""),
               IF id \in DOMAIN nodes THEN [nodes EXCEPT ![id] = row] ELSE nodes,
               seq)

\* PUT reorder: siblings = await TreeNode.findAll(...), the bounds check and the
\* two splices.
ReorderFindAll(c) ==
    /\ calls[c].op = "reorder" /\ calls[c].pc = "findAll"
    /\ \E siblings \in findAllAsc(nodes, childrenOf(nodes, calls[c].par)) :
          Step(c,
               IF invalidOrdering(calls[c].arg, siblings)
               THEN Done(calls[c], 400, "Invalid new ordering value.")
               ELSE [calls[c] EXCEPT
                       !.pc = "update", !.i = 1,
                       !.list = spliceIn(spliceOut(siblings, calls[c].ord),
                                         calls[c].arg, calls[c].id)],
               nodes, seq)

\* PUT reorder: await TreeNode.update({ordering: i}, {where: {id: siblings[i].id}})
ReorderUpdate(c) ==
    /\ calls[c].op = "reorder" /\ calls[c].pc = "update"
    /\ LET i == calls[c].i
           id == calls[c].list[i]
       IN Step(c,
               IF i = Len(calls[c].list) THEN Done(calls[c], 200, "")
               ELSE [calls[c] EXCEPT !.i = i + 1],
               IF id \in DOMAIN nodes THEN [nodes EXCEPT ![id].ordering = i - 1]
               ELSE nodes,
               seq)

\* deleteNodeAndDescendants after a findAll or a destroy has returned: the
\* loop over the children calls itself on the next child, or the loop is over
\* and the node itself is destroyed; with no frame left the handler answers.
DeleteGoOn(call, stack) ==
    IF stack = <<>> THEN {Done([call EXCEPT !.stack = <<>>], 200, "")}
    ELSE LET top == stack[Len(stack)]
             rest == SubSeq(stack, 1, Len(stack) - 1)
         IN IF top.todo = {}
            THEN {[call EXCEPT !.stack = rest \o <<Frame(top.id, {}, "destroy")>>]}
            ELSE {[call EXCEPT
                     !.stack = rest \o <<Frame(top.id, top.todo \ {child}, "loop"),
                                         Frame(child, {}, "findAll")>>] :
                  child \in top.todo}

\* deleteNodeAndDescendants: children = await TreeNode.findAll(...)
DeleteFindAll(c) ==
    /\ calls[c].op = "delete" /\ calls[c].pc = "delete"
    /\ LET stack == calls[c].stack
           top == stack[Len(stack)]
       IN /\ top.pc = "findAll"
          /\ \E call \in DeleteGoOn(calls[c],
                    [stack EXCEPT ![Len(stack)] =
                        Frame(top.id, childrenOf(nodes, top.id), "loop")]) :
                Step(c, call, nodes, seq)

\* deleteNodeAndDescendants: await TreeNode.destroy({where: {id}})
DeleteDestroy(c) ==
    /\ calls[c].op = "delete" /\ calls[c].pc = "delete"
    /\ LET stack == calls[c].stack
           top == stack[Len(stack)]
       IN /\ top.pc = "destroy"
          /\ \E call \in DeleteGoOn(calls[c], SubSeq(stack, 1, Len(stack) - 1)) :
                Step(c, call, [x \in DOMAIN nodes \ {top.id} |-> nodes[x]], seq)

\* The storage layer rejects a destroy: the catch block answers 500.
DeleteDestroyFails(c) ==
    /\ calls[c].op = "delete" /\ calls[c].pc = "delete"
    /\ calls[c].stack[Len(calls[c].stack)].pc = "destroy"
    /\ Step(c, Done(calls[c], 500, "Error deleting node."), nodes, seq)

NextC ==
    \/ \E c \in 1..MaxCalls, id \in IdInputs :
          \/ StartCall(c, "get", id, NULL)
          \/ StartCall(c, "delete", id, NULL)
          \/ \E arg \in ParentInputs : StartCall(c, "move", id, arg)
          \/ \E arg \in OrderingInputs : StartCall(c, "reorder", id, arg)
    \/ \E c \in 1..MaxCalls, arg \in ParentInputs : StartCall(c, "insert", NULL, arg)
    \/ \E c \in 1..MaxCalls :
          \/ InsertFindParent(c) \/ InsertCount(c) \/ InsertCreate(c)
          \/ FindNode(c) \/ GetFindAll(c)
          \/ MoveFindParent(c) \/ MoveWalk(c) \/ MoveCount(c) \/ MoveSave(c)
          \/ ReorderFindAll(c) \/ ReorderUpdate(c)
          \/ DeleteFindAll(c) \/ DeleteDestroy(c) \/ DeleteDestroyFails(c)

SpecC == InitC /\ [][NextC]_vars

\* ------------------------------------------- one invocation, step by step
\* Sequential callers again, but with every handler run one storage call at a
\* time (invocation 1 only): the next request arrives after the response.

InitSteps ==
    /\ nodes = (ROOT_ID :> TreeNode(RootTitle, NULL, 0))
    /\ seq = ROOT_ID
    /\ started = TRUE
    /\ prev = nodes
    /\ last = NoRequest
    /\ calls = NoCalls

\* The greatest id assigned when the handlers are run step by step.
MaxStepId == 3

\* A request arrives; an insert only while the id counter is below its bound.
StartStep ==
    \/ \E id \in IdInputs :
          \/ StartCall(1, "get", id, NULL)
          \/ StartCall(1, "delete", id, NULL)
          \/ \E arg \in ParentInputs : StartCall(1, "move", id, arg)
          \/ \E arg \in OrderingInputs : StartCall(1, "reorder", id, arg)
    \/ seq < MaxStepId /\ \E arg \in ParentInputs : StartCall(1, "insert", NULL, arg)

\* The storage call the invocation waits for returns and the handler runs on
\* to its next storage call or to its response.
HandlerStep ==
    \/ InsertFindParent(1) \/ InsertCount(1) \/ InsertCreate(1)
    \/ FindNode(1) \/ GetFindAll(1)
    \/ MoveFindParent(1) \/ MoveWalk(1) \/ MoveCount(1) \/ MoveSave(1)
    \/ ReorderFindAll(1) \/ ReorderUpdate(1)
    \/ DeleteFindAll(1) \/ DeleteDestroy(1) \/ DeleteDestroyFails(1)

\* The caller has the response; prev becomes the store the next request finds.
FinishStep ==
    /\ calls[1].pc = "done"
    /\ calls' = NoCalls
    /\ prev' = nodes
    /\ UNCHANGED <<nodes, seq, started, last>>

NextSteps == StartStep \/ HandlerStep \/ FinishStep

\* A storage call returns and the event loop runs the continuation.
SpecSteps == InitSteps /\ [][NextSteps]_vars /\ WF_vars(HandlerStep)

\* ------------------------------------------------------------- properties
\* The children of p and the set of their ordering values.
Kids(n, p) == {c \in DOMAIN n : n[c].parent_node_id = p}
OrderingsOf(n, p) == {n[c].ordering : c \in Kids(n, p)}

\* The proper ancestors of x, following parent_node_id for at most k steps.
RECURSIVE AncestorsOf(_, _, _)
AncestorsOf(n, x, k) ==
    IF k = 0 \/ x \notin DOMAIN n \/ n[x].parent_node_id = NULL THEN {}
    ELSE {n[x].parent_node_id} \cup AncestorsOf(n, n[x].parent_node_id, k - 1)

Ancestors(n, x) == AncestorsOf(n, x, Cardinality(DOMAIN n) + 1)

\* id and its transitive descendants, found from the children downwards.
RECURSIVE SubtreeOf(_, _)
SubtreeOf(n, S) ==
    LET kids == UNION {Kids(n, p) : p \in S}
    IN IF kids \subseteq S THEN S ELSE SubtreeOf(n, S \cup kids)

\* id and its transitive descendants, found from each node upwards.
Desc(n, id) == {x \in DOMAIN n : x = id \/ id \in Ancestors(n, x)}

\* The error kinds, as the handlers report them.
NotFound(r) == r.status = 404
Forbidden(r) ==
    /\ r.status = 400
    /\ r.error \in {"Cannot delete the root node.", "Cannot move the root node."}
Cycle(r) == r.status = 400 /\ r.error = "Cannot move a node to its own descendant."
InvalidParent(r) == r.status = 400 /\ r.error = "Parent node does not exist."

\* C1: once the store is bootstrapped, after every completed operation the
\* ordering values of the children of every node P are exactly 0..n-1, n the
\* number of children of P.
C1_Density ==
    started => \A p \in DOMAIN nodes :
                  OrderingsOf(nodes, p) = 0..(Cardinality(Kids(nodes, p)) - 1)

\* C2: after every completed operation no two distinct nodes with the same
\* parent_node_id have the same ordering.
C2_UniqueOrdering ==
    started => \A a, b \in DOMAIN nodes :
                  (a # b /\ nodes[a].parent_node_id = nodes[b].parent_node_id)
                      => nodes[a].ordering # nodes[b].ordering

\* C3: after every completed operation the parent relation is a tree rooted at
\* id 1: every other node's parent exists, its parent chain reaches the root,
\* and no node is among its own ancestors.
C3_RootedTree ==
    started => \A x \in DOMAIN nodes :
                  LET ancestors == Ancestors(nodes, x)
                  IN /\ x \notin ancestors
                     /\ x # ROOT_ID =>
                           /\ nodes[x].parent_node_id \in DOMAIN nodes
                           /\ ROOT_ID \in ancestors
                           /\ ancestors \subseteq DOMAIN nodes

\* C3 witness: a node that has a child of its own has been moved below a node
\* other than the root.
C3_Witness ==
    /\ last.op = "move" /\ last.status = 200
    /\ last.arg # ROOT_ID
    /\ Kids(nodes, last.id) # {}
    /\ nodes[last.id].parent_node_id = last.arg

\* C4: once bootstrap has run, exactly one node has parent_node_id = null and
\* it is the node with id 1, in every state.
C4_UniqueRoot ==
    started => {x \in DOMAIN nodes : nodes[x].parent_node_id = NULL} = {ROOT_ID}

\* C4 witness: a move to a null parent has been answered in a store that holds
\* nodes besides the root.
C4_Witness ==
    /\ last.op = "move" /\ last.arg = NULL /\ last.id \in DOMAIN nodes
    /\ last.id # ROOT_ID

\* C5: moving an existing non-root node to itself or to one of its transitive
\* descendants fails with Cycle and changes no row.
C5_MoveCycleRejected ==
    (/\ last.op = "move"
     /\ last.id \in DOMAIN prev /\ last.id # ROOT_ID
     /\ last.arg \in SubtreeOf(prev, {last.id}))
        => Cycle(last) /\ nodes = prev

\* C5 witness: a move below a descendant that is not a child of the moved node
\* has been refused.
C5_Witness ==
    /\ last.op = "move" /\ Cycle(last)
    /\ last.arg # last.id
    /\ prev[last.arg].parent_node_id # last.id
    /\ last.arg \in SubtreeOf(prev, {last.id})

\* C6: a successful delete of an existing non-root node leaves exactly the
\* previous rows minus the node and its transitive descendants; none of the
\* removed ids is found afterwards and every other row is unchanged.
C6_DeleteCascade ==
    (last.op = "delete" /\ last.status = 200 /\ last.id \in DOMAIN prev)
        => /\ DOMAIN nodes = DOMAIN prev \ Desc(prev, last.id)
           /\ \A x \in Desc(prev, last.id) : ~findByPk(nodes, x)
           /\ \A x \in DOMAIN nodes : nodes[x] = prev[x]

\* C6 witness: a delete has removed a node together with a descendant and has
\* left another non-root node in place.
C6_Witness ==
    /\ last.op = "delete" /\ last.status = 200
    /\ Cardinality(DOMAIN prev \ DOMAIN nodes) >= 2
    /\ Cardinality(DOMAIN nodes) >= 2

\* C7: a delete of the root (id 1) fails with Forbidden and removes no node.
C7_DeleteRootForbidden ==
    (last.op = "delete" /\ last.id = ROOT_ID) => Forbidden(last) /\ nodes = prev

\* C7 witness: a delete of the root has been answered while the root has
\* descendants.
C7_Witness ==
    /\ last.op = "delete" /\ last.id = ROOT_ID
    /\ Cardinality(DOMAIN nodes) >= 3

\* C8: a delete of an id that is not the root and is not in the store fails
\* with NotFound and leaves the store unchanged.
C8_DeleteMissingNotFound ==
    (last.op = "delete" /\ last.id # ROOT_ID /\ last.id \notin DOMAIN prev)
        => NotFound(last) /\ nodes = prev

\* C9: an insert whose parent is null or is the id of no stored node fails with
\* InvalidParent and leaves the rows as they were.
C9_InsertInvalidParent ==
    (last.op = "insert" /\ (last.arg = NULL \/ last.arg \notin DOMAIN prev))
        => InvalidParent(last) /\ nodes = prev

\* C9 witness: an insert below an id that was assigned and has since been
\* deleted has been refused.
C9_Witness ==
    /\ last.op = "insert" /\ InvalidParent(last)
    /\ last.arg # NULL /\ last.arg <= seq /\ last.arg \notin DOMAIN prev

\* C10: a successful insert gives the new node the number of children its parent
\* had before the call as ordering, and that ordering is greater than the
\* ordering of every other child of the parent.
C10_InsertAppendsLast ==
    (last.op = "insert" /\ last.status = 201)
        => /\ nodes[last.body].ordering = Cardinality(Kids(prev, last.arg))
           /\ \A c \in Kids(nodes, last.arg) \ {last.body} :
                 nodes[c].ordering < nodes[last.body].ordering

InvalidOrdering(r) == r.status = 400 /\ r.error = "Invalid new ordering value."

\* The position of x among the children of its parent, in ascending ordering.
PositionOf(n, x) ==
    Cardinality({c \in Kids(n, n[x].parent_node_id) : n[c].ordering < n[x].ordering})

\* C11: a successful reorder leaves the sibling group of the node with ordering
\* values exactly 0..n-1, the node at the requested ordering, and the other
\* siblings in the relative order they had before.
C11_ReorderResult ==
    (last.op = "reorder" /\ last.status = 200)
        => LET p == prev[last.id].parent_node_id
               group == Kids(prev, p)
           IN /\ OrderingsOf(nodes, p) = 0..(Cardinality(group) - 1)
              /\ nodes[last.id].ordering = last.arg
              /\ \A a, b \in group \ {last.id} :
                    prev[a].ordering < prev[b].ordering
                        => nodes[a].ordering < nodes[b].ordering

\* C12: a reorder to the position the node already has among its siblings
\* changes no ordering (and no other field) of any node.
C12_ReorderSamePosition ==
    (/\ last.op = "reorder" /\ last.id \in DOMAIN prev
     /\ last.arg = PositionOf(prev, last.id))
        => nodes = prev

\* C13: a reorder of an existing node in a sibling group of size n fails with
\* InvalidOrdering when the new ordering is below 0 or at least n, and then
\* changes no row; it succeeds when 0 <= new ordering < n.
C13_ReorderBounds ==
    (last.op = "reorder" /\ last.id \in DOMAIN prev)
        => LET n == Cardinality(Kids(prev, prev[last.id].parent_node_id))
           IN IF last.arg < 0 \/ last.arg >= n
              THEN InvalidOrdering(last) /\ nodes = prev
              ELSE last.status = 200

\* C13 witness: a reorder to new ordering n in a sibling group of size n >= 2
\* has been refused.
C13_Witness ==
    /\ last.op = "reorder" /\ InvalidOrdering(last)
    /\ last.id \in DOMAIN prev
    /\ last.arg = Cardinality(Kids(prev, prev[last.id].parent_node_id))
    /\ last.arg >= 2

\* C14: a successful move sets the node's parent to the new parent and its
\* ordering to the number of children the new parent had before the move, which
\* makes it the last child of the new parent; its title and every other node
\* are unchanged.
C14_MoveEffect ==
    (last.op = "move" /\ last.status = 200)
        => /\ DOMAIN nodes = DOMAIN prev
           /\ nodes[last.id].parent_node_id = last.arg
           /\ nodes[last.id].ordering = Cardinality(Kids(prev, last.arg))
           /\ \A c \in Kids(nodes, last.arg) \ {last.id} :
                 nodes[c].ordering < nodes[last.id].ordering
           /\ nodes[last.id].title = prev[last.id].title
           /\ \A x \in DOMAIN prev \ {last.id} : nodes[x] = prev[x]

\* C15: a move fails with NotFound when the node or the new parent does not
\* exist, and with Forbidden when the node is the root and the new parent
\* exists; in both cases no row changes.
C15_MovePreconditions ==
    last.op = "move"
        => /\ (last.id \notin DOMAIN prev \/ last.arg \notin DOMAIN prev)
                 => NotFound(last) /\ nodes = prev
           /\ (last.id = ROOT_ID /\ last.arg \in DOMAIN prev)
                 => Forbidden(last) /\ nodes = prev

\* C15 witness: a move of the root below an existing non-root node has been
\* refused.
C15_Witness ==
    /\ last.op = "move" /\ Forbidden(last)
    /\ last.id = ROOT_ID /\ last.arg \in DOMAIN prev /\ last.arg # ROOT_ID

\* The scenario of C16: the root has children A (2) and B (3), and B is moved
\* below a descendant D of A.
C16_Scenario ==
    /\ last.op = "move" /\ last.id = 3
    /\ {2, 3} \subseteq DOMAIN prev
    /\ prev[2].parent_node_id = ROOT_ID /\ prev[3].parent_node_id = ROOT_ID
    /\ last.arg \in SubtreeOf(prev, {2}) \ {2}

\* C16 as stated: in the scenario the move fails with Cycle.
C16_MoveUnderCousinIsCycle == C16_Scenario => Cycle(last)

\* C16 as amended: in the scenario the move succeeds and B becomes a child of D
\* (D is neither B nor below B, so no cycle arises).
C16_MoveUnderCousinSucceeds ==
    C16_Scenario => /\ last.status = 200
                    /\ nodes[3].parent_node_id = last.arg
                    /\ 3 \notin Ancestors(nodes, 3)

\* C16 witness: the move of the scenario has been answered.
C16_Witness == C16_Scenario /\ last.status = 200

\* C17: a successful update changes the title of the node and nothing else: its
\* parent and ordering and every other row are as before; an update of an id
\* that is not stored fails with NotFound and changes nothing.
C17_UpdateFrame ==
    last.op = "update"
        => IF last.id \in DOMAIN prev
           THEN /\ last.status = 200
                /\ DOMAIN nodes = DOMAIN prev
                /\ nodes[last.id].title = last.title
                /\ nodes[last.id].parent_node_id = prev[last.id].parent_node_id
                /\ nodes[last.id].ordering = prev[last.id].ordering
                /\ \A x \in DOMAIN prev \ {last.id} : nodes[x] = prev[x]
           ELSE NotFound(last) /\ nodes = prev

\* C17 witness: an update has given a new title to a node in a store that holds
\* a node with a non-zero ordering.
C17_Witness ==
    /\ last.op = "update" /\ last.status = 200
    /\ nodes[last.id].title # prev[last.id].title
    /\ \E x \in DOMAIN nodes : nodes[x].ordering > 0

\* C18: a get of a stored node returns the node and exactly the nodes whose
\* parent it is, in ascending ordering; a get of an id that is not stored fails
\* with NotFound; the store is unchanged either way.
C18_GetNode ==
    last.op = "get"
        => /\ nodes = prev
           /\ IF last.id \in DOMAIN prev
              THEN /\ last.status = 200 /\ last.body = last.id
                   /\ {last.children[i] : i \in 1..Len(last.children)}
                         = Kids(prev, last.id)
                   /\ Len(last.children) = Cardinality(Kids(prev, last.id))
                   /\ \A i, j \in 1..Len(last.children) :
                         i < j => prev[last.children[i]].ordering
                                     <= prev[last.children[j]].ordering
              ELSE NotFound(last)

\* C18 witness: a get has returned two children of different ordering while a
\* grandchild of the node is stored.
C18_Witness ==
    /\ last.op = "get" /\ last.status = 200
    /\ Len(last.children) = 2
    /\ nodes[last.children[1]].ordering < nodes[last.children[2]].ordering
    /\ \E x \in DOMAIN nodes : nodes[x].parent_node_id \in Kids(nodes, last.id)

\* The invocations that have been started, and whether each has answered.
Started == {c \in 1..MaxCalls : calls[c].op # "none"}
AllDone == \A c \in Started : calls[c].pc = "done"

\* Invocation c is a successful write to the sibling group of parent p: an
\* insert below p, a move into p from another parent, or a reorder of a child
\* of p.
WritesGroup(c, p) ==
    /\ calls[c].pc = "done" /\ calls[c].status \in {200, 201}
    /\ \/ calls[c].op = "insert" /\ calls[c].arg = p
       \/ /\ calls[c].op = "move" /\ calls[c].arg = p
          /\ calls[c].id \in DOMAIN prev
          /\ prev[calls[c].id].parent_node_id # p
       \/ /\ calls[c].op = "reorder"
          /\ calls[c].id \in DOMAIN prev
          /\ prev[calls[c].id].parent_node_id = p

\* C19: when two invocations that write the sibling group of the same parent
\* (inserts, moves into it, reorders) have run interleaved and both have
\* completed, the children of that parent have pairwise distinct orderings
\* with no gaps.
C19_ConcurrentSameParent ==
    \A p \in DOMAIN prev :
        (AllDone /\ Cardinality(Started) = 2 /\ \A c \in Started : WritesGroup(c, p))
            => /\ \A a, b \in Kids(nodes, p) :
                     a # b => nodes[a].ordering # nodes[b].ordering
               /\ OrderingsOf(nodes, p) = 0..(Cardinality(Kids(nodes, p)) - 1)

\* C20: while a delete of a subtree of two or more nodes is the only writer
\* (any other invocation is a get), in every state an observer finds the
\* subtree either whole or gone, also after the delete has ended on a storage
\* failure.
C20_DeleteAtomic ==
    \A c \in 1..MaxCalls :
        (/\ calls[c].op = "delete" /\ calls[c].id \in DOMAIN prev
         /\ Cardinality(SubtreeOf(prev, {calls[c].id})) >= 2
         /\ \A d \in 1..MaxCalls \ {c} : calls[d].op \in {"none", "get"})
            => LET left == SubtreeOf(prev, {calls[c].id}) \cap DOMAIN nodes
               IN left = {} \/ left = SubtreeOf(prev, {calls[c].id})

\* Invocation c is a completed insert below p, or a completed move to below p.
TargetsParent(c, p) ==
    /\ calls[c].pc = "done"
    /\ calls[c].op \in {"insert", "move"}
    /\ calls[c].arg = p

\* C21: when a delete of a stored non-root node and the inserts and moves that
\* overlap it, each with a target parent inside the subtree being deleted, have
\* all completed, every stored node other than the root has a stored parent.
C21_NoOrphans ==
    \A c \in 1..MaxCalls :
        (/\ AllDone /\ Cardinality(Started) >= 2
         /\ calls[c].op = "delete" /\ calls[c].id \in DOMAIN prev \ {ROOT_ID}
         /\ \A d \in Started \ {c} :
               \E p \in SubtreeOf(prev, {calls[c].id}) : TargetsParent(d, p))
            => \A x \in DOMAIN nodes \ {ROOT_ID} :
                  nodes[x].parent_node_id \in DOMAIN nodes

\* C23: when two overlapping moves have both completed, no node is among its
\* own ancestors and the parent chain of every stored node other than the root
\* reaches the root.
C23_ConcurrentMovesAcyclic ==
    (/\ AllDone /\ Cardinality(Started) = 2
     /\ \A c \in Started : calls[c].op = "move")
        => \A x \in DOMAIN nodes :
              LET ancestors == Ancestors(nodes, x)
              IN /\ x \notin ancestors
                 /\ x # ROOT_ID => ROOT_ID \in ancestors

\* C22: when only inserts, updates and reorders are served, the ordering values
\* of the children of every node are exactly 0..n-1 in every state, and every
\* successful insert gives the new node the number of children its parent had
\* as ordering, above every other child; so k inserts in a row below a node
\* without children get 0, 1, ..., k-1 in call order.
C22_DensityWithoutDeleteMove ==
    /\ started => \A p \in DOMAIN nodes :
                     OrderingsOf(nodes, p) = 0..(Cardinality(Kids(nodes, p)) - 1)
    /\ (last.op = "insert" /\ last.status = 201)
          => /\ nodes[last.body].ordering = Cardinality(Kids(prev, last.arg))
             /\ \A c \in Kids(prev, last.arg) :
                   /\ nodes[c].ordering = prev[c].ordering
                   /\ nodes[c].ordering < nodes[last.body].ordering

\* C22 witness: a third child has been inserted below a node whose two
\* children a reorder had put in the opposite of their insertion order.
C22_Witness ==
    /\ last.op = "insert" /\ last.status = 201
    /\ nodes[last.body].ordering = 2
    /\ \E a, b \in Kids(prev, last.arg) :
          a < b /\ prev[a].ordering > prev[b].ordering

\* C24: with sequential callers every move and every delete that has started
\* is answered, with success or with an error, and no move is answered with
\* the 500 of a walk that read a parent that is not stored: the walk of
\* isDescendant ends at the null parent of the root or at the moved node.
C24_Termination ==
    /\ [](calls[1].op = "move" /\ calls[1].pc = "done"
             => calls[1].status \in {200, 400, 404})
    /\ (calls[1].op \in {"move", "delete"} /\ calls[1].pc # "done")
          ~> (calls[1].op \in {"move", "delete"} /\ calls[1].pc = "done"
                /\ calls[1].status \in {200, 400, 404, 500})

\* C24 witness: a move below a node other than the root has been answered with
\* success: its walk read the new parent and then the root.
C24_Witness ==
    /\ calls[1].op = "move" /\ calls[1].pc = "done" /\ calls[1].status = 200
    /\ calls[1].arg \in DOMAIN prev \ {ROOT_ID}
    /\ nodes[calls[1].id].parent_node_id = calls[1].arg
====
